---- MODULE Spec2Model ----
(***************************************************************************)
(* Model of index.py of the construction expense tracker: the sheet        *)
(* adapter (get_sheet_data, append_to_sheet, update_sheet_data), the       *)
(* sort-and-renumber routine sort_data_by_date, and the flows built on     *)
(* them (add_expense_to_sheet, get_expenses_from_sheet,                    *)
(* setup_sheet_headers, manual_sort_sheet, the submit handler of main).    *)
(*                                                                         *)
(* A cell is a tagged value: <<"str", chars>> for a Python str (chars is   *)
(* the tuple of its characters) and <<"num", n>> for a Python number.      *)
(* A row is a tuple of cells (a Python list), a table a tuple of rows.     *)
(* Where the code shares row objects between lists (sort_data_by_date),    *)
(* rows live in a heap (object id -> row) and a list holds object ids.     *)
(***************************************************************************)
EXTENDS Integers, Sequences, FiniteSets, TLC

\* ---------------------------------------------------------------- bounds
\* Largest number of data rows of a table handed to sort_data_by_date.
MaxRows == 3
\* A flow starts only while the persisted sheet has fewer rows than this.
MaxSheetLen == 3
\* Largest number of data rows of the sheet at the start.
MaxInitRows == 1
\* The same two bounds for a session running on its own.
MaxSoloLen == 5
MaxSoloRows == 2

\* ----------------------------------------------------------------- cells
Str(chars) == <<"str", chars>>
Num(n) == <<"num", n>>
IsStr(cell) == cell[1] = "str"

\* The decimal digits and their values.
DigitVal ==
  ("0" :> 0) @@ ("1" :> 1) @@ ("2" :> 2) @@ ("3" :> 3) @@ ("4" :> 4) @@
  ("5" :> 5) @@ ("6" :> 6) @@ ("7" :> 7) @@ ("8" :> 8) @@ ("9" :> 9)
IsDigit(c) == c \in DOMAIN DigitVal

\* str(n) for a number 0 <= n <= 99, as a tuple of characters.
DigitChar(d) == CHOOSE c \in DOMAIN DigitVal : DigitVal[c] = d
PyStr(cell) ==
  IF IsStr(cell) THEN cell[2]
  ELSE IF cell[2] < 10 THEN <<DigitChar(cell[2])>>
  ELSE <<DigitChar(cell[2] \div 10), DigitChar(cell[2] % 10)>>

\* ------------------------------------------------------------ parse_date
\* datetime values are compared through an order-preserving number.
DateOrd(y, m, d) == (y * 12 + m) * 31 + d
\* datetime.min is 0001-01-01 00:00.
DatetimeMin == DateOrd(1, 1, 1)

IsLeap(y) == (y % 4 = 0 /\ y % 100 # 0) \/ y % 400 = 0
DaysInMonth(y, m) ==
  IF m = 2 THEN (IF IsLeap(y) THEN 29 ELSE 28)
  ELSE IF m \in {4, 6, 9, 11} THEN 30 ELSE 31

\* %d: 3[0-1] | [1-2]\d | 0[1-9] | [1-9] | " "[1-9]
DayField(s) ==
  IF Len(s) = 1 THEN
    IF IsDigit(s[1]) /\ DigitVal[s[1]] >= 1 THEN DigitVal[s[1]] ELSE 0
  ELSE IF Len(s) = 2 /\ IsDigit(s[2]) THEN
    IF s[1] = " " THEN DigitVal[s[2]]
    ELSE IF IsDigit(s[1]) /\ DigitVal[s[1]] * 10 + DigitVal[s[2]] <= 31
      THEN DigitVal[s[1]] * 10 + DigitVal[s[2]]
      ELSE 0
  ELSE 0

\* %m: 1[0-2] | 0[1-9] | [1-9]
MonthField(s) ==
  IF Len(s) = 1 THEN
    IF IsDigit(s[1]) /\ DigitVal[s[1]] >= 1 THEN DigitVal[s[1]] ELSE 0
  ELSE IF Len(s) = 2 /\ IsDigit(s[1]) /\ IsDigit(s[2])
          /\ DigitVal[s[1]] * 10 + DigitVal[s[2]] <= 12
    THEN DigitVal[s[1]] * 10 + DigitVal[s[2]]
  ELSE 0

\* %Y: \d\d\d\d ; -1 when the field does not match.
YearField(s) ==
  IF Len(s) = 4 /\ \A i \in 1..4 : IsDigit(s[i])
  THEN DigitVal[s[1]] * 1000 + DigitVal[s[2]] * 100
       + DigitVal[s[3]] * 10 + DigitVal[s[4]]
  ELSE -1

\* datetime.strptime(s, '%d/%m/%Y'): the date's number, or -1 for ValueError
\* (no match, unconverted data, day out of range for month, year 0).
Strptime(s) ==
  LET splits == { <<dl, ml>> \in {1, 2} \X {1, 2} :
                    /\ Len(s) = dl + ml + 6
                    /\ s[dl + 1] = "/"
                    /\ s[dl + ml + 2] = "/" }
  IN IF splits = {} THEN -1
     ELSE LET sp == CHOOSE x \in splits : TRUE
              d == DayField(SubSeq(s, 1, sp[1]))
              m == MonthField(SubSeq(s, sp[1] + 2, sp[1] + sp[2] + 1))
              y == YearField(SubSeq(s, sp[1] + sp[2] + 3, Len(s)))
          IN IF d >= 1 /\ m >= 1 /\ y >= 1 /\ d <= DaysInMonth(y, m)
             THEN DateOrd(y, m, d)
             ELSE -1

\* parse_date: strptime of str(date_str); datetime.min on any exception.
parse_date(date_str) ==
  LET t == Strptime(PyStr(date_str))
  IN IF t = -1 THEN DatetimeMin ELSE t

\* The sort key of a row: key=lambda row: parse_date(row[1]) if len(row) > 1
\* else datetime.min (Python's row[1] is the second cell).
SortKey(row) == IF Len(row) > 1 THEN parse_date(row[2]) ELSE DatetimeMin

\* ---------------------------------------------------- sort_data_by_date
\* sorted() computes each element's key once and sorts the pairs
\* <<key, element>>; the elements here are row objects (ids).
RECURSIVE Decorate(_, _)
Decorate(heap, ids) ==
  IF ids = <<>> THEN <<>>
  ELSE <<<<SortKey(heap[Head(ids)]), Head(ids)>>>> \o Decorate(heap, Tail(ids))

\* One insertion with ties the wrong way round: the item goes before the
\* items of equal key, so rows of equal key come out in reverse input order
\* (what reversing an ascending sort would give).
RECURSIVE InsertDescTiesReversed(_, _)
InsertDescTiesReversed(sorted, item) ==
  IF sorted = <<>> THEN <<item>>
  ELSE IF Head(sorted)[1] > item[1]
    THEN <<Head(sorted)>> \o InsertDescTiesReversed(Tail(sorted), item)
    ELSE <<item>> \o sorted

\* One insertion of a stable descending sort: the item goes after every
\* item whose key is greater than or equal to its own.
RECURSIVE InsertDesc(_, _)
InsertDesc(sorted, item) ==
  IF sorted = <<>> THEN <<item>>
  ELSE IF Head(sorted)[1] >= item[1]
    THEN <<Head(sorted)>> \o InsertDesc(Tail(sorted), item)
    ELSE <<item>> \o sorted

\* The items inserted one by one, in input order.
RECURSIVE SortDecorated(_)
SortDecorated(items) ==
  IF items = <<>> THEN <<>>
  ELSE LET front == SortDecorated(SubSeq(items, 1, Len(items) - 1))
       IN InsertDesc(front, items[Len(items)])

\* A descending sort that is not stable: the descending order, reversed
\* among the rows of equal key.
SortedTiesReversed(heap, ids) ==
  LET flipped == [i \in 1..Len(ids) |-> ids[Len(ids) + 1 - i]]
      items == SortDecorated(Decorate(heap, flipped))
  IN [i \in 1..Len(items) |-> items[i][2]]

\* sorted(data_rows, key=..., reverse=True): a new list of the same row
\* objects, by non-increasing key, rows of equal key in input order.
Sorted(heap, ids) ==
  LET items == SortDecorated(Decorate(heap, ids))
  IN [i \in 1..Len(items) |-> items[i][2]]

\* The renumbering loop counting from 0 instead of 1.
RenumberFromZero(heap, sorted_rows) ==
  [id \in DOMAIN heap |->
     LET at == { i \in 1..Len(sorted_rows) : sorted_rows[i] = id }
     IN IF at # {} /\ Len(heap[id]) > 0
        THEN [heap[id] EXCEPT ![1] = Num((CHOOSE i \in at : \A j \in at : j <= i) - 1)]
        ELSE heap[id]]

\* for i, row in enumerate(sorted_rows, 1): if len(row) > 0: row[0] = i
\* The assignment writes into the row object itself, so the heap changes.
Renumber(heap, sorted_rows) ==
  [id \in DOMAIN heap |->
     LET at == { i \in 1..Len(sorted_rows) : sorted_rows[i] = id }
     IN IF at # {} /\ Len(heap[id]) > 0
        THEN [heap[id] EXCEPT ![1] = Num(CHOOSE i \in at : \A j \in at : j <= i)]
        ELSE heap[id]]

\* A variant that sorts the argument list in place (all_data.sort) instead
\* of building a new list.
sort_data_by_date_in_place(heap, all_data) ==
  IF Len(all_data) <= 1
  THEN [heap |-> heap, arg |-> all_data, ret |-> all_data, same |-> TRUE]
  ELSE LET sorted_rows == Sorted(heap, Tail(all_data))
       IN [heap |-> Renumber(heap, sorted_rows),
           arg |-> <<all_data[1]>> \o sorted_rows,
           ret |-> <<all_data[1]>> \o sorted_rows,
           same |-> TRUE]

\* sort_data_by_date(all_data) on a list of row objects.  Result: the heap
\* after the call, the argument list after the call, the returned list, and
\* whether the returned list is the argument list object itself.  No
\* statement of the try block can raise on a list of lists, so the except
\* branch is never taken.
sort_data_by_date(heap, all_data) ==
  IF Len(all_data) <= 1
  THEN [heap |-> heap, arg |-> all_data, ret |-> all_data, same |-> TRUE]
  ELSE LET headers == all_data[1]
           data_rows == Tail(all_data)
           sorted_rows == Sorted(heap, data_rows)
       IN [heap |-> Renumber(heap, sorted_rows),
           arg |-> all_data,
           ret |-> <<headers>> \o sorted_rows,
           same |-> FALSE]

\* The table (tuple of rows) a list of row objects denotes.
Deref(heap, ids) == [i \in 1..Len(ids) |-> heap[ids[i]]]

\* sort_data_by_date on a table of freshly built rows (one object per row,
\* as a fetch or a literal gives): the returned table.
SortTable(table) ==
  LET ids == [i \in 1..Len(table) |-> i]
      r == sort_data_by_date(table, ids)
  IN Deref(r.heap, r.ret)

\* ------------------------------------------------------------------ text
HEADERS ==
  << Str(<<"S", "l", " ", "N", "o">>),
     Str(<<"D", "a", "t", "e">>),
     Str(<<"I", "t", "e", "m", " ", "D", "e", "s", "c", "r", "i", "p", "t", "i", "o", "n">>),
     Str(<<"V", "e", "n", "d", "o", "r">>),
     Str(<<"B", "i", "l", "l", " ", "N", "u", "m", "b", "e", "r">>),
     Str(<<"A", "m", "o", "u", "n", "t">>) >>

Date_15_01_2024 == <<"1", "5", "/", "0", "1", "/", "2", "0", "2", "4">>
Date_01_01_2024 == <<"0", "1", "/", "0", "1", "/", "2", "0", "2", "4">>
Date_1_1_2024 == <<"1", "/", "1", "/", "2", "0", "2", "4">>
Date_29_02_2024 == <<"2", "9", "/", "0", "2", "/", "2", "0", "2", "4">>
Date_31_02_2024 == <<"3", "1", "/", "0", "2", "/", "2", "0", "2", "4">>
Date_01_01_0001 == <<"0", "1", "/", "0", "1", "/", "0", "0", "0", "1">>
BadDate == <<"b", "a", "d", "-", "d", "a", "t", "e">>
Cement == <<"C", "e", "m", "e", "n", "t">>
Sand == <<"S", "a", "n", "d">>
Vendor == <<"A", "B", "C">>
BillB1 == <<"B", "1">>
NA == <<"N", "/", "A">>

FullRow(sl, date, desc, amount) ==
  <<sl, Str(date), Str(desc), Str(Vendor), Str(BillB1), Num(amount)>>

\* Data rows a table passed to sort_data_by_date can hold: full rows (as
\* fetched, all text, or as add_expense_to_sheet builds them, with numbers),
\* rows the backend cut short, and the empty row it returns for a blank line.
RowChoices ==
  { <<>>,
    <<Str(<<"7">>)>>,
    <<Num(9), Str(Date_1_1_2024)>>,
    FullRow(Str(<<"1">>), Date_15_01_2024, Cement, 100),
    FullRow(Str(<<"2">>), Date_01_01_2024, Sand, 50),
    FullRow(Num(1), Date_31_02_2024, Sand, 50),
    FullRow(Num(3), Date_29_02_2024, Cement, 100),
    FullRow(Str(<<"3">>), BadDate, Cement, 100),
    FullRow(Str(<<"4">>), Date_01_01_0001, Sand, 50) }

\* ------------------------------------------------------------- variables
VARIABLES
  sPc,      \* "start", "sorted" (one call returned), "twice" (two calls)
  sHeap,    \* row objects: id -> row
  sHeap0,   \* the row objects as they were before the first call
  sIn,      \* the list passed to the first call (ids)
  sRet,     \* the list returned by the latest call (ids)
  sSame,    \* whether the latest call returned its argument list object
  sVal1,    \* the table the first call returned, as it was on return
  sheet,    \* the persisted rows of Sheet1!A:F
  pc,       \* per session: "idle", "fetched", "done"
  op,       \* per session: "none", "add", "get", "setup", "sort"
  all_data, \* per session: what get_sheet_data returned
  expense_data, \* per session: the expense of the add flow
  fetched,  \* per session: "none", "ok", "failed" (the backend read)
  wrote,    \* per session: "none", "ok", "failed" (the update or append)
  ret       \* per session: the function's return value

sortVars == <<sPc, sHeap, sHeap0, sIn, sRet, sSame, sVal1>>
flowVars == <<sheet, pc, op, all_data, expense_data, fetched, wrote, ret>>
vars == <<sortVars, flowVars>>

Sessions == {"s1", "s2"}
NoExpense == <<>>

\* ----------------------------------------------------- the sheet adapter
\* get_sheet_data: the rows read, or [] when the read raises (the except
\* branch reports the error and returns []).
get_sheet_data(current, ok) == IF ok THEN current ELSE <<>>

\* A write that is acknowledged but stores nothing.
update_sheet_data_dropped(current, values, ok) == current

\* update_sheet_data: the sheet after values().update(...).execute(): the
\* rows written on success (the whole-table overwrite of the adapter's
\* contract), the old rows when the call raises.
update_sheet_data(current, values, ok) == IF ok THEN values ELSE current

\* append_to_sheet: the sheet after values().append(...).execute(): the row
\* added after the last row on success, the old rows when the call raises.
append_to_sheet(current, values, ok) ==
  IF ok THEN Append(current, values) ELSE current

\* ------------------------------------------------------------- the flows
\* expense_date.strftime('%d/%m/%Y') for a date <<y, m, d>>.
Pad2(n) == <<DigitChar(n \div 10), DigitChar(n % 10)>>
Strftime(date) ==
  Pad2(date[3]) \o <<"/">> \o Pad2(date[2]) \o <<"/">>
  \o Pad2(date[1] \div 100) \o Pad2(date[1] % 100)

\* What the form can submit: date, description, vendor, bill number, amount.
FormInputs ==
  { [date |-> <<2024, 1, 15>>, description |-> Cement, vendor |-> Vendor,
     bill_number |-> BillB1, amount |-> 100],
    [date |-> <<2024, 2, 1>>, description |-> Sand, vendor |-> Vendor,
     bill_number |-> <<>>, amount |-> 50],
    [date |-> <<2024, 1, 15>>, description |-> Cement, vendor |-> Vendor,
     bill_number |-> BillB1, amount |-> 0],
    [date |-> <<2024, 2, 1>>, description |-> <<>>, vendor |-> Vendor,
     bill_number |-> BillB1, amount |-> 50] }

\* if description and vendor and amount > 0
FormValid(form) ==
  form.description # <<>> /\ form.vendor # <<>> /\ form.amount > 0

\* The expense_data dict main builds from a valid form.
ExpenseOf(form) ==
  [date |-> Strftime(form.date),
   description |-> form.description,
   vendor |-> form.vendor,
   bill_number |-> IF form.bill_number # <<>> THEN form.bill_number ELSE NA,
   amount |-> form.amount]

\* row_data of add_expense_to_sheet.
RowData(next_sl_no, e) ==
  <<Num(next_sl_no), Str(e.date), Str(e.description), Str(e.vendor),
    Str(e.bill_number), Num(e.amount)>>

\* add_expense_to_sheet without the header it creates for an empty table.
SortedWithExpenseNoHeaders(fetched_data, e) ==
  SortTable(Append(fetched_data, RowData(Len(fetched_data), e)))

\* add_expense_to_sheet, from the fetched table to sorted_data: the header
\* created when there is no data, the new row numbered len(all_data) and
\* appended, and the whole table sorted and renumbered.
SortedWithExpense(fetched_data, e) ==
  LET with_headers == IF fetched_data = <<>> THEN <<HEADERS>> ELSE fetched_data
      next_sl_no == Len(with_headers)
  IN SortTable(Append(with_headers, RowData(next_sl_no, e)))

\* A session's locals after its function returned and the script ended.
Idle(s) ==
  /\ pc' = [pc EXCEPT ![s] = "idle"]
  /\ op' = [op EXCEPT ![s] = "none"]
  /\ all_data' = [all_data EXCEPT ![s] = <<>>]
  /\ expense_data' = [expense_data EXCEPT ![s] = NoExpense]
  /\ fetched' = [fetched EXCEPT ![s] = "none"]
  /\ wrote' = [wrote EXCEPT ![s] = "none"]
  /\ ret' = [ret EXCEPT ![s] = "none"]

\* all_data = get_sheet_data(service), the first statement of every flow.
Fetch(s) ==
  \E ok \in BOOLEAN :
    /\ all_data' = [all_data EXCEPT ![s] = get_sheet_data(sheet, ok)]
    /\ fetched' = [fetched EXCEPT ![s] = IF ok THEN "ok" ELSE "failed"]
    /\ pc' = [pc EXCEPT ![s] = "fetched"]

\* main, the submit handler, up to the fetch in add_expense_to_sheet: a
\* valid form calls add_expense_to_sheet(expense_data), which fetches the
\* table.  (An invalid form only gets the warning: no state changes.)
Submit(s, cap) ==
  /\ pc[s] = "idle"
  /\ Len(sheet) < cap
  /\ \E form \in FormInputs :
       /\ FormValid(form)
       /\ expense_data' = [expense_data EXCEPT ![s] = ExpenseOf(form)]
  /\ op' = [op EXCEPT ![s] = "add"]
  /\ Fetch(s)
  /\ UNCHANGED <<sheet, wrote, ret, sortVars>>

\* main calling setup_sheet_headers (every script run), manual_sort_sheet
\* (the sort button) or get_expenses_from_sheet (every script run), up to
\* the fetch that each starts with.
Invoke(s, cap) ==
  /\ pc[s] = "idle"
  /\ Len(sheet) < cap
  /\ \E o \in {"setup", "sort", "get"} : op' = [op EXCEPT ![s] = o]
  /\ Fetch(s)
  /\ UNCHANGED <<sheet, expense_data, wrote, ret, sortVars>>

\* The write of a flow: the sheet and the call's outcome.
Write(s, new_sheet, ok) ==
  /\ sheet' = new_sheet
  /\ wrote' = [wrote EXCEPT ![s] = IF ok THEN "ok" ELSE "failed"]

\* return True, whatever update_sheet_data returned.
AddReturnValue(update_ok) == "True"

\* add_expense_to_sheet after the fetch: the table with the new row is
\* sorted and written; the result of update_sheet_data is not looked at.
add_expense_to_sheet(s) ==
  /\ pc[s] = "fetched" /\ op[s] = "add"
  /\ \E ok \in BOOLEAN :
       /\ Write(s, update_sheet_data(sheet,
                     SortedWithExpense(all_data[s], expense_data[s]), ok), ok)
       /\ ret' = [ret EXCEPT ![s] = AddReturnValue(ok)]
  /\ pc' = [pc EXCEPT ![s] = "done"]
  /\ UNCHANGED <<op, all_data, expense_data, fetched, sortVars>>

\* setup_sheet_headers after the fetch: the header is appended when the
\* fetched table is empty; nothing is returned.
setup_sheet_headers(s) ==
  /\ pc[s] = "fetched" /\ op[s] = "setup"
  /\ IF all_data[s] = <<>>
     THEN \E ok \in BOOLEAN : Write(s, append_to_sheet(sheet, HEADERS, ok), ok)
     ELSE UNCHANGED <<sheet, wrote>>
  /\ pc' = [pc EXCEPT ![s] = "done"]
  /\ UNCHANGED <<op, all_data, expense_data, fetched, ret, sortVars>>

\* get_expenses_from_sheet after the fetch: an empty DataFrame for at most a
\* header; otherwise the sorted table is written back and returned.
get_expenses_from_sheet(s) ==
  /\ pc[s] = "fetched" /\ op[s] = "get"
  /\ IF Len(all_data[s]) <= 1
     THEN /\ ret' = [ret EXCEPT ![s] = "empty"]
          /\ UNCHANGED <<sheet, wrote>>
     ELSE /\ \E ok \in BOOLEAN :
               Write(s, update_sheet_data(sheet, SortTable(all_data[s]), ok), ok)
          /\ ret' = [ret EXCEPT ![s] = "rows"]
  /\ pc' = [pc EXCEPT ![s] = "done"]
  /\ UNCHANGED <<op, all_data, expense_data, fetched, sortVars>>

\* manual_sort_sheet after the fetch: with a data row the sorted table is
\* written and True returned, else False.
manual_sort_sheet(s) ==
  /\ pc[s] = "fetched" /\ op[s] = "sort"
  /\ IF Len(all_data[s]) > 1
     THEN /\ \E ok \in BOOLEAN :
               Write(s, update_sheet_data(sheet, SortTable(all_data[s]), ok), ok)
          /\ ret' = [ret EXCEPT ![s] = "True"]
     ELSE /\ ret' = [ret EXCEPT ![s] = "False"]
          /\ UNCHANGED <<sheet, wrote>>
  /\ pc' = [pc EXCEPT ![s] = "done"]
  /\ UNCHANGED <<op, all_data, expense_data, fetched, sortVars>>

\* The function has returned and the script run ends.
Return(s) ==
  /\ pc[s] = "done"
  /\ Idle(s)
  /\ UNCHANGED <<sheet, sortVars>>

\* What main shows after add_expense_to_sheet returned:
\* if add_expense_to_sheet(...): st.success(...) else: st.error(...)
AddMessage(s) == IF ret[s] = "True" THEN "success" ELSE "failed"

Step(s, cap) ==
  \/ Submit(s, cap)
  \/ Invoke(s, cap)
  \/ add_expense_to_sheet(s)
  \/ setup_sheet_headers(s)
  \/ get_expenses_from_sheet(s)
  \/ manual_sort_sheet(s)
  \/ Return(s)

\* Data rows a sheet starts with: a blank line, a row cut short, a full
\* row whose date does not parse.
SheetRowChoices ==
  { <<>>,
    <<Num(9), Str(Date_1_1_2024)>>,
    FullRow(Str(<<"2">>), BadDate, Sand, 50) }

\* The same without the row cut short, for the sessions running together.
SharedSheetRowChoices ==
  { <<>>,
    FullRow(Str(<<"2">>), BadDate, Sand, 50) }

\* The sheet at the start: empty, or the header and up to max data rows.
InitialSheets(choices, max) ==
  { <<>> } \cup
  UNION { { <<HEADERS>> \o t : t \in [1..n -> choices] } : n \in 0..max }

SortIdle ==
  /\ sPc = "start"
  /\ sHeap = <<>>
  /\ sHeap0 = <<>>
  /\ sIn = <<>>
  /\ sRet = <<>>
  /\ sSame = FALSE
  /\ sVal1 = <<>>

FlowsIdle ==
  /\ pc = [s \in Sessions |-> "idle"]
  /\ op = [s \in Sessions |-> "none"]
  /\ all_data = [s \in Sessions |-> <<>>]
  /\ expense_data = [s \in Sessions |-> NoExpense]
  /\ fetched = [s \in Sessions |-> "none"]
  /\ wrote = [s \in Sessions |-> "none"]
  /\ ret = [s \in Sessions |-> "none"]

Init ==
  /\ sheet \in InitialSheets(SharedSheetRowChoices, MaxInitRows)
  /\ FlowsIdle
  /\ SortIdle

\* Streamlit runs each session's script in a thread of its own: the
\* sessions' backend calls interleave freely.
Next == \E s \in Sessions : Step(s, MaxSheetLen)

Spec == Init /\ [][Next]_vars

\* One session on its own: no other session's call falls between the
\* calls of its flows.
SoloInit ==
  /\ sheet \in InitialSheets(SheetRowChoices, MaxSoloRows)
  /\ FlowsIdle
  /\ SortIdle

SoloNext == Step("s1", MaxSoloLen)

SoloSpec == SoloInit /\ [][SoloNext]_vars

\* --------------------------------------------- sort_data_by_date alone
\* Tables of distinct row objects: empty, or a header and up to MaxRows
\* data rows.
SortInputs ==
  { <<>> } \cup
  UNION { { <<HEADERS>> \o t : t \in [1..n -> RowChoices] } : n \in 0..MaxRows }

SortInit ==
  /\ sPc = "start"
  /\ sHeap \in SortInputs
  /\ sHeap0 = sHeap
  /\ sIn = [i \in 1..Len(sHeap) |-> i]
  /\ sRet = <<>>
  /\ sSame = FALSE
  /\ sVal1 = <<>>
  /\ sheet = <<>>
  /\ FlowsIdle

\* sorted_data = sort_data_by_date(all_data)
CallSort ==
  /\ sPc = "start"
  /\ LET r == sort_data_by_date(sHeap, sIn)
     IN /\ sHeap' = r.heap
        /\ sIn' = r.arg
        /\ sRet' = r.ret
        /\ sSame' = r.same
        /\ sVal1' = Deref(r.heap, r.ret)
  /\ sPc' = "sorted"
  /\ UNCHANGED <<sHeap0, flowVars>>

\* sort_data_by_date(sorted_data): the routine applied to its own result
CallSortAgain ==
  /\ sPc = "sorted"
  /\ LET r == sort_data_by_date(sHeap, sRet)
     IN /\ sHeap' = r.heap
        /\ sRet' = r.ret
        /\ sSame' = r.same
  /\ sPc' = "twice"
  /\ UNCHANGED <<sHeap0, sIn, sVal1, flowVars>>

SortNext == CallSort \/ CallSortAgain

SortSpec == SortInit /\ [][SortNext]_vars

\* ------------------------------------------- claims on sort_data_by_date
\* The number of data rows of the table passed to the first call.
NData == Len(sIn) - 1
\* Where a row object stands in a list.
PosIn(ids, id) == CHOOSE i \in 1..Len(ids) : ids[i] = id
\* A row whose date is missing or does not parse.
NoValidDate(row) == Len(row) < 2 \/ Strptime(PyStr(row[2])) = -1

\* C1 as stated: after sort_data_by_date on a table with N >= 1 data rows,
\* every data row has a first cell and the first cells are 1, 2, ..., N in
\* row order.
C1_SerialsAreOneToN ==
  (sPc = "sorted" /\ NData >= 1) =>
    /\ Len(sRet) = NData + 1
    /\ \A i \in 1..NData :
         /\ Len(sHeap[sRet[i + 1]]) > 0
         /\ sHeap[sRet[i + 1]][1] = Num(i)

\* C1 amended: after sort_data_by_date on a table with N >= 1 data rows, the
\* result has N data rows; every data row that has at least one cell carries
\* its own 1-based position in its first cell, and a row with no cells stays
\* empty (its position is then used by no row).
C1_NonEmptyRowsCarryPosition ==
  (sPc = "sorted" /\ NData >= 1) =>
    /\ Len(sRet) = NData + 1
    /\ \A i \in 1..NData :
         IF Len(sHeap0[sRet[i + 1]]) > 0
         THEN sHeap[sRet[i + 1]][1] = Num(i)
         ELSE sHeap[sRet[i + 1]] = <<>>

\* C1 witness: a sorted table where an empty row stands before a row that
\* was renumbered to its position.
C1_Witness ==
  /\ sPc = "sorted"
  /\ \E i, j \in 1..NData :
       /\ i < j
       /\ sHeap[sRet[i + 1]] = <<>>
       /\ Len(sHeap[sRet[j + 1]]) > 0
       /\ sHeap[sRet[j + 1]][1] = Num(j)
       /\ sHeap0[sRet[j + 1]][1] # Num(j)

\* C2 as stated: the returned data rows are the input's row objects, each
\* once, by non-increasing key, and every row without a valid date comes
\* after every row with a valid date.
C2_NewestFirstInvalidLast ==
  (sPc = "sorted" /\ NData >= 1) =>
    /\ Len(sRet) = Len(sIn)
    /\ \A id \in 2..Len(sIn) : \E i \in 2..Len(sRet) : sRet[i] = id
    /\ \A i, j \in 2..Len(sRet) :
         i < j => SortKey(sHeap0[sRet[i]]) >= SortKey(sHeap0[sRet[j]])
    /\ \A i, j \in 2..Len(sRet) :
         (NoValidDate(sHeap0[sRet[i]]) /\ ~NoValidDate(sHeap0[sRet[j]])) => j < i

\* C6: rows of equal key keep their input order in the result.
C6_Stable ==
  (sPc = "sorted" /\ NData >= 1) =>
    \A i, j \in 2..Len(sIn) :
      (i < j /\ SortKey(sHeap0[sIn[i]]) = SortKey(sHeap0[sIn[j]]))
        => PosIn(sRet, sIn[i]) < PosIn(sRet, sIn[j])

\* C6 witness: two different rows of equal key, kept in input order in the
\* result although a later row of a newer date was moved in front of both.
C6_Witness ==
  /\ sPc = "sorted"
  /\ \E i, j, k \in 2..Len(sIn) :
       /\ i < j /\ j < k
       /\ SortKey(sHeap0[sIn[i]]) = SortKey(sHeap0[sIn[j]])
       /\ sHeap0[sIn[i]] # sHeap0[sIn[j]]
       /\ SortKey(sHeap0[sIn[k]]) > SortKey(sHeap0[sIn[i]])
       /\ PosIn(sRet, sIn[k]) < PosIn(sRet, sIn[i])
       /\ PosIn(sRet, sIn[i]) < PosIn(sRet, sIn[j])

\* C7: sorting the sorted table returns the same table, cell for cell.
C7_Idempotent ==
  sPc = "twice" => Deref(sHeap, sRet) = sVal1

\* C7 witness: a table sorted twice that has two different rows of equal
\* key, a row without a valid date, and was not in sorted order at first.
C7_Witness ==
  /\ sPc = "twice"
  /\ Deref(sHeap0, sIn) # sVal1
  /\ \E i \in 2..Len(sIn) : NoValidDate(sHeap0[sIn[i]])
  /\ \E i, j \in 2..Len(sIn) :
       /\ i # j
       /\ sHeap0[sIn[i]] # sHeap0[sIn[j]]
       /\ ~NoValidDate(sHeap0[sIn[i]])
       /\ SortKey(sHeap0[sIn[i]]) = SortKey(sHeap0[sIn[j]])

\* C8 as stated, for a table with a data row: after the call the table
\* passed in is as it was (row order and every cell), and the result is a
\* new list.
C8_InputUntouched ==
  (sPc = "sorted" /\ NData >= 1) =>
    /\ sIn = [i \in 1..Len(sHeap0) |-> i]
    /\ Deref(sHeap, sIn) = Deref(sHeap0, sIn)
    /\ ~sSame

\* C8 amended: the call leaves the argument list's row order, its header
\* and every cell but the first of each data row as they were; it
\* overwrites, in the row objects the argument shares with the result, the
\* first cell of every non-empty data row with the row's position in the
\* result; and it returns a new list exactly when there is a data row (an
\* empty or header-only argument is returned itself).
C8_OnlyFirstCellsChange ==
  sPc = "sorted" =>
    /\ sIn = [i \in 1..Len(sHeap0) |-> i]
    /\ DOMAIN sHeap = DOMAIN sHeap0
    /\ Len(sIn) >= 1 => sHeap[sIn[1]] = sHeap0[sIn[1]]
    /\ \A k \in 2..Len(sIn) :
         LET old == sHeap0[sIn[k]]
             new == sHeap[sIn[k]]
         IN /\ Len(new) = Len(old)
            /\ \A c \in 2..Len(old) : new[c] = old[c]
            /\ Len(old) > 0 => new[1] = Num(PosIn(sRet, sIn[k]) - 1)
    /\ sSame = (Len(sIn) <= 1)

\* C8 witness: a call that returned a new list in another order and changed
\* the first cell of a row of its argument.
C8_Witness ==
  /\ sPc = "sorted"
  /\ ~sSame
  /\ sRet # sIn
  /\ \E k \in 2..Len(sIn) :
       /\ Len(sHeap0[sIn[k]]) > 0
       /\ sHeap[sIn[k]][1] # sHeap0[sIn[k]][1]

\* --------------------------------------------------- claims on the flows
\* A row without its SerialNumber cell.
NoSl(row) == IF row = <<>> THEN <<>> ELSE Tail(row)
\* The data rows of a table, each without its SerialNumber cell.
DataNoSl(table) == [i \in 1..(Len(table) - 1) |-> NoSl(table[i + 1])]
\* How often a row stands in a tuple of rows.
CountOf(rows, r) == Cardinality({ i \in 1..Len(rows) : rows[i] = r })
\* The same rows, each the same number of times.
SameRows(a, b) ==
  /\ Len(a) = Len(b)
  /\ \A i \in 1..Len(a) : CountOf(a, a[i]) = CountOf(b, a[i])
\* The new row of an expense, without its SerialNumber cell.
NewRowNoSl(e) == NoSl(RowData(0, e))
\* A row that is the header, whatever its first cell.
HeaderLike(row) == Len(row) = Len(HEADERS) /\ Tail(row) = Tail(HEADERS)
\* The table an insertion builds on: the fetched one, or the header alone.
BaseOf(table) == IF table = <<>> THEN <<HEADERS>> ELSE table

\* C3: when the whole-table write of an insertion fails (after a fetch that
\* succeeded), add_expense_to_sheet returns False and main shows the
\* failure message.
C3_WriteFailureReported ==
  \A s \in Sessions :
    (pc[s] = "done" /\ op[s] = "add" /\ fetched[s] = "ok"
       /\ wrote[s] = "failed") =>
      (ret[s] = "False" /\ AddMessage(s) = "failed")

\* Two sessions that both finished an insertion, with every backend call
\* succeeding, from the same fetched table.
BothAdded(s, t) ==
  /\ s # t
  /\ pc[s] = "done" /\ pc[t] = "done"
  /\ op[s] = "add" /\ op[t] = "add"
  /\ fetched[s] = "ok" /\ fetched[t] = "ok"
  /\ wrote[s] = "ok" /\ wrote[t] = "ok"
  /\ all_data[s] = all_data[t]

\* C4: when two sessions' insertions both fetched the same table and both
\* wrote, both report success and the sheet is one session's table alone:
\* the header, the fetched data rows and one new row (N + 1 data rows, not
\* N + 2), so the other session's row is lost.
C4_LostUpdate ==
  \A s, t \in Sessions :
    BothAdded(s, t) =>
      /\ ret[s] = "True" /\ ret[t] = "True"
      /\ AddMessage(s) = "success" /\ AddMessage(t) = "success"
      /\ Len(sheet) = Len(BaseOf(all_data[s])) + 1
      /\ \E w \in {s, t} :
           SameRows(DataNoSl(sheet),
                    Append(DataNoSl(BaseOf(all_data[s])),
                           NewRowNoSl(expense_data[w])))

\* C4 witness: both insertions reported success on a table with a data
\* row, and the sheet holds the row of s2 and not the row of s1.
C4_Witness ==
  /\ BothAdded("s1", "s2")
  /\ Len(all_data["s1"]) >= 2
  /\ ret["s1"] = "True" /\ ret["s2"] = "True"
  /\ CountOf(DataNoSl(sheet), NewRowNoSl(expense_data["s2"])) = 1
  /\ CountOf(DataNoSl(sheet), NewRowNoSl(expense_data["s1"])) = 0

\* C5: the persisted sheet is empty or has the header as row 0, and no
\* later row is the header (as written, or with its first cell renumbered).
C5_HeaderIsRowZero ==
  \/ sheet = <<>>
  \/ /\ sheet[1] = HEADERS
     /\ \A i \in 2..Len(sheet) : ~HeaderLike(sheet[i])

C10_FetchFailureAborts ==
  \A s \in Sessions :
    (pc[s] = "done" /\ op[s] \in {"add", "setup"} /\ fetched[s] = "failed") =>
      /\ wrote[s] = "none"
      /\ op[s] = "add" => ret[s] = "False"

====
